---- MODULE Spec2Model ----
(***************************************************************************)
(* Model of src/database.py: class LuteDatabase of Lute2Anki.              *)
(*                                                                         *)
(* The store (lute.db) is modelled as its tables; build_sql_query is       *)
(* modelled as the query it writes (select list, joins, WHERE conjuncts)   *)
(* and the query is then evaluated the way SQLite evaluates it: names are  *)
(* resolved against the aliases of the FROM clause, LEFT JOINs are nested  *)
(* loops that pad with NULL, comparisons are three-valued.                 *)
(*                                                                         *)
(* Values: a column value is <<>> (SQL NULL / Python None) or <<v>>.       *)
(* TEXT values that a condition inspects are sequences of code points, so  *)
(* that the string comparison of WoCreated against the ISO date is the     *)
(* byte-wise comparison SQLite performs.                                   *)
(***************************************************************************)
EXTENDS Integers, Sequences, FiniteSets, Bags, TLC

NULL == <<>>
Some(v) == <<v>>

(* ---------------------------------------------------------------------- *)
(* Bounds of the model                                                     *)
(* ---------------------------------------------------------------------- *)
NumWords == 3
MaxLinks == 3
MaxImages == 2
MaxWordTags == 2

WordIDs == 1 .. NumWords

(* ---------------------------------------------------------------------- *)
(* Text helpers                                                            *)
(* ---------------------------------------------------------------------- *)
\* str.endswith
EndsWith(s, suffix) ==
    /\ Len(s) >= Len(suffix)
    /\ SubSeq(s, Len(s) - Len(suffix) + 1, Len(s)) = suffix

\* decimal digits of n, zero padded to width w (code points 48..57)
RECURSIVE ZeroPad(_, _)
ZeroPad(n, w) ==
    IF w = 0 THEN <<>> ELSE ZeroPad(n \div 10, w - 1) \o <<48 + (n % 10)>>

\* datetime.date.isoformat(): YYYY-MM-DD
isoformat(d) ==
    ZeroPad(d.year, 4) \o <<45>> \o ZeroPad(d.month, 2) \o <<45>> \o ZeroPad(d.day, 2)

\* SQLite BINARY collation: memcmp on the common prefix, then the length
RECURSIVE TextCompare(_, _)
TextCompare(a, b) ==
    IF a = <<>> /\ b = <<>> THEN 0
    ELSE IF a = <<>> THEN -1
    ELSE IF b = <<>> THEN 1
    ELSE IF Head(a) < Head(b) THEN -1
    ELSE IF Head(a) > Head(b) THEN 1
    ELSE TextCompare(Tail(a), Tail(b))

(* ---------------------------------------------------------------------- *)
(* The store: the tables of lute.db the queries read                       *)
(* ---------------------------------------------------------------------- *)
Schema ==
    [ words       |-> {"WoID", "WoLgID", "WoText", "WoTextLC", "WoStatus",
                       "WoTranslation", "WoRomanization", "WoTokenCount",
                       "WoCreated", "WoStatusChanged"},
      wordimages  |-> {"WiID", "WiWoID", "WiSource"},
      wordtags    |-> {"WtWoID", "WtTgID"},
      tags        |-> {"TgID", "TgText", "TgComment"},
      wordparents |-> {"WpWoID", "WpParentWoID"} ]

NullRow(table) == [c \in Schema[table] |-> NULL]

(* ---------------------------------------------------------------------- *)
(* SQL: the pieces a query is written with                                 *)
(* ---------------------------------------------------------------------- *)
\* a column reference, qualified (w.WoText) or not (WoText, q = "")
Col(q, c) == [q |-> q, c |-> c]
From(table, alias) == [table |-> table, alias |-> alias, on |-> <<>>]
LeftJoin(table, alias, l, r) == [table |-> table, alias |-> alias, on |-> <<l, r>>]

IsNull(ref)    == [op |-> "IS NULL", ref |-> ref]
IsNotNull(ref) == [op |-> "IS NOT NULL", ref |-> ref]
Or(a, b)       == [op |-> "OR", a |-> a, b |-> b]
\* comparison of a column with a literal; side says where the column stands
Cmp(op, type, ref, lit, side) ==
    [op |-> op, type |-> type, ref |-> ref, lit |-> lit, side |-> side]

RECURSIVE CondRefs(_)
CondRefs(c) ==
    IF c.op = "OR" THEN CondRefs(c.a) \cup CondRefs(c.b) ELSE {c.ref}

SeqRange(s) == {s[i] : i \in 1 .. Len(s)}

\* the aliases of the FROM clause a reference can mean
Candidates(ref, from) ==
    {i \in 1 .. Len(from) :
        /\ ref.q = "" \/ ref.q = from[i].alias
        /\ ref.c \in Schema[from[i].table]}

Resolves(ref, from) == Cardinality(Candidates(ref, from)) = 1

QueryRefs(q) ==
    SeqRange(q.select)
      \cup UNION {SeqRange(q.from[i].on) : i \in 1 .. Len(q.from)}
      \cup UNION {CondRefs(q.where[i]) : i \in 1 .. Len(q.where)}

\* sqlite3 prepares the statement first: "no such column: ..." when a name
\* of the statement is not a column of a table of its FROM clause
Unresolved(q) == {ref \in QueryRefs(q) : ~Resolves(ref, q.from)}

\* value of a reference in a joined row j (alias -> row)
Value(ref, from, j) ==
    LET i == CHOOSE k \in Candidates(ref, from) : TRUE
    IN  j[from[i].alias][ref.c]

\* SQL `=` of an ON clause: NULL matches nothing
SqlEq(a, b) == a # NULL /\ b # NULL /\ a = b

\* FROM t1 LEFT JOIN t2 ON ... : rows of the first k tables, NULL padded
RECURSIVE JoinRows(_, _, _)
JoinRows(from, k, db) ==
    IF k = 0 THEN {[a \in {} |-> NULL]}
    ELSE LET e    == from[k]
             prev == JoinRows(from, k - 1, db)
             Ext(j, r) == j @@ (e.alias :> r)
             Match(j) ==
                 {r \in db[e.table] :
                     SqlEq(Value(e.on[1], SubSeq(from, 1, k), Ext(j, r)),
                           Value(e.on[2], SubSeq(from, 1, k), Ext(j, r)))}
         IN  IF e.on = <<>>
             THEN {Ext(j, r) : j \in prev, r \in db[e.table]}
             ELSE UNION {IF Match(j) = {}
                         THEN {Ext(j, NullRow(e.table))}
                         ELSE {Ext(j, r) : r \in Match(j)} : j \in prev}

\* three-valued comparison: "N" (NULL) when an operand is NULL
Compare(op, type, x, y) ==
    IF x = NULL \/ y = NULL THEN "N"
    ELSE LET c == IF type = "TEXT" THEN TextCompare(x[1], y[1])
                  ELSE IF x[1] < y[1] THEN -1 ELSE IF x[1] > y[1] THEN 1 ELSE 0
             holds == CASE op = ">=" -> c >= 0
                        [] op = "<=" -> c <= 0
                        [] op = "<>" -> c # 0
         IN  IF holds THEN "T" ELSE "F"

RECURSIVE EvalCond(_, _, _)
EvalCond(c, from, j) ==
    CASE c.op = "IS NULL" ->
             IF Value(c.ref, from, j) = NULL THEN "T" ELSE "F"
      [] c.op = "IS NOT NULL" ->
             IF Value(c.ref, from, j) = NULL THEN "F" ELSE "T"
      [] c.op = "OR" ->
             LET a == EvalCond(c.a, from, j)
                 b == EvalCond(c.b, from, j)
             IN  IF a = "T" \/ b = "T" THEN "T"
                 ELSE IF a = "F" /\ b = "F" THEN "F" ELSE "N"
      [] OTHER ->
             LET v == Value(c.ref, from, j)
             IN  IF c.side = "left"
                 THEN Compare(c.op, c.type, v, Some(c.lit))
                 ELSE Compare(c.op, c.type, Some(c.lit), v)

\* WHERE c1 AND c2 AND ...: a row is kept when every conjunct is true
Kept(q, db) ==
    {j \in JoinRows(q.from, Len(q.from), db) :
        \A i \in 1 .. Len(q.where) : EvalCond(q.where[i], q.from, j) = "T"}

Project(q, j) == [i \in 1 .. Len(q.select) |-> Value(q.select[i], q.from, j)]

\* cursor.execute(q); cursor.fetchall(): the rows as a bag (the store fixes
\* no order); a row occurs once per joined row that projects to it
FetchAll(q, db) ==
    LET kept == Kept(q, db)
    IN  [row \in {Project(q, j) : j \in kept} |->
            Cardinality({j \in kept : Project(q, j) = row})]

(* ---------------------------------------------------------------------- *)
(* build_sql_query                                                         *)
(* ---------------------------------------------------------------------- *)
\* variant: the tags joined on the term's own identifier
wordtags_join_on_word ==
    LeftJoin("wordtags", "wt", Col("w", "WoID"), Col("wt", "WtWoID"))

\* LEFT JOIN wordtags AS wt ON wi.WiWoID = wt.WtWoID (both branches)
wordtags_join ==
    LeftJoin("wordtags", "wt", Col("wi", "WiWoID"), Col("wt", "WtWoID"))

base_query(parents_only) ==
    IF parents_only
    THEN [ select |-> << Col("w", "WoText"), Col("w", "WoTranslation"),
                         Col("w", "WoLgID"), Col("w", "WoCreated"),
                         Col("t", "TgText"), Col("w", "WoStatusChanged"),
                         Col("w", "WoTextLC"), Col("w", "WoID"),
                         Col("w", "WoStatus"), Col("w", "WoRomanization"),
                         Col("w", "WoTokenCount"), Col("wi", "WiSource"),
                         Col("t", "TgComment") >>,
           from   |-> << From("words", "w"),
                         LeftJoin("wordimages", "wi",
                                  Col("w", "WoID"), Col("wi", "WiWoID")),
                         wordtags_join,
                         LeftJoin("tags", "t",
                                  Col("wt", "WtTgID"), Col("t", "TgID")),
                         LeftJoin("wordparents", "wp_child",
                                  Col("w", "WoID"), Col("wp_child", "WpWoID")),
                         LeftJoin("wordparents", "wp_parent",
                                  Col("w", "WoID"),
                                  Col("wp_parent", "WpParentWoID")) >> ]
    ELSE [ select |-> << Col("", "WoText"), Col("", "WoTranslation"),
                         Col("", "WoLgID"), Col("", "WoCreated"),
                         Col("", "TgText"), Col("", "WoStatusChanged"),
                         Col("", "WoTextLC"), Col("", "WoID"),
                         Col("", "WoStatus"), Col("", "WoRomanization"),
                         Col("", "WiSource"), Col("", "TgComment") >>,
           from   |-> << From("words", "w"),
                         LeftJoin("wordimages", "wi",
                                  Col("w", "WoID"), Col("wi", "WiWoID")),
                         wordtags_join,
                         LeftJoin("tags", "t",
                                  Col("wt", "WtTgID"), Col("t", "TgID")) >> ]

\* variant: only terms without parent
parent_condition_roots_only == IsNull(Col("wp_child", "WpParentWoID"))

\* (wp_child.WpParentWoID IS NULL OR wp_parent.WpParentWoID IS NOT NULL)
parent_condition ==
    Or(IsNull(Col("wp_child", "WpParentWoID")),
       IsNotNull(Col("wp_parent", "WpParentWoID")))

\* variant: the test of include_WKI inverted
status_conditions_inverted(include_WKI) ==
    (IF include_WKI
     THEN << Cmp("<=", "INT", Col("", "WoStatus"), 5, "left") >> ELSE << >>)
    \o << Cmp("<=", "INT", Col("", "WoStatus"), 1, "right") >>

\* if not include_WKI: WoStatus <= 5;  include_unknown = False: 1 <= WoStatus
status_conditions(include_WKI) ==
    (IF ~include_WKI
     THEN << Cmp("<=", "INT", Col("", "WoStatus"), 5, "left") >> ELSE << >>)
    \o << Cmp("<=", "INT", Col("", "WoStatus"), 1, "right") >>

\* the cutoff is written in double quotes; no column has that name, so
\* SQLite reads it as a string literal
where_conditions(empty_translation, include_WKI, cutoff_date) ==
    << IsNotNull(Col("", "WoTranslation")),
       parent_condition,
       Cmp(">=", "TEXT", Col("", "WoCreated"), isoformat(cutoff_date), "left") >>
    \o (IF ~empty_translation
        THEN << Cmp("<>", "TEXT", Col("", "WoTranslation"), << >>, "left") >>
        ELSE << >>)
    \o status_conditions(include_WKI)

build_sql_query(parents_only, empty_translation, include_WKI, cutoff_date) ==
    [ select |-> base_query(parents_only).select,
      from   |-> base_query(parents_only).from,
      where  |-> where_conditions(empty_translation, include_WKI, cutoff_date) ]

(* ---------------------------------------------------------------------- *)
(* Stores and inputs the model ranges over                                 *)
(* ---------------------------------------------------------------------- *)
Date(y, m, d) == [year |-> y, month |-> m, day |-> d]
Today == Date(2024, 1, 10)
Dates == {Date(2023, 12, 31), Date(2024, 1, 9), Today}
Cutoffs == {Date(2023, 12, 31), Today}

\* WoCreated as lute writes it: "YYYY-MM-DD 00:00:00"
Stamp(d) == isoformat(d) \o <<32, 48, 48, 58, 48, 48, 58, 48, 48>>

LgIDs == {1, 2}

Word(id, lg, tr, st, cr) ==
    [ WoID |-> Some(id), WoLgID |-> Some(lg), WoText |-> Some(<<"text", id>>),
      WoTextLC |-> Some(<<"textlc", id>>), WoStatus |-> Some(st),
      WoTranslation |-> tr, WoRomanization |-> Some(<<"rom", id>>),
      WoTokenCount |-> Some(1), WoCreated |-> Some(cr),
      WoStatusChanged |-> Some(cr) ]

\* the terms of the scenario: statuses 1, 5, 6, translations "a", "", "c"
ScenarioWord(i) ==
    Word(i, ((i - 1) % 2) + 1,
         Some(<< <<97>>, << >>, <<99>> >>[((i - 1) % 3) + 1]),
         <<1, 5, 6>>[((i - 1) % 3) + 1],
         Stamp(Today))

Link(child, parent) == [WpWoID |-> Some(child), WpParentWoID |-> Some(parent)]
Image(id, wo) == [WiID |-> Some(id), WiWoID |-> Some(wo), WiSource |-> Some(<<"img", id>>)]
WordTag(wo, tg) == [WtWoID |-> Some(wo), WtTgID |-> Some(tg)]
Tag(id) == [TgID |-> Some(id), TgText |-> Some(<<"tag", id>>), TgComment |-> Some(<<"comment", id>>)]
\* a row of languages: LgID, LgName and one further column
Language(id) == << Some(id), Some(<<"language", id>>), Some(<<"dict", id>>) >>

ScenarioStore ==
    [ words       |-> {ScenarioWord(i) : i \in WordIDs},
      wordimages  |-> {},
      wordtags    |-> {},
      tags        |-> {Tag(1), Tag(2)},
      wordparents |-> {},
      languages   |-> << Language(1), Language(2), Language(3) >> ]

\* term 1 takes every translation, status, creation date and language
FilterStores ==
    { [ScenarioStore EXCEPT !.words =
            {Word(1, lg, tr, st, Stamp(d))} \cup {ScenarioWord(i) : i \in WordIDs \ {1}}] :
        lg \in LgIDs, tr \in {NULL, Some(<< >>), Some(<<97>>)},
        st \in {0, 1, 5, 6}, d \in Dates }

\* every set of at most MaxLinks parent links between the terms
LinkStores ==
    { [ScenarioStore EXCEPT !.wordparents = L] :
        L \in {X \in SUBSET {Link(c, p) : c, p \in WordIDs} :
                  /\ Cardinality(X) <= MaxLinks
                  /\ \A l \in X : l.WpWoID # l.WpParentWoID} }

\* images and tags on the first two terms
TagStores ==
    { [ScenarioStore EXCEPT !.wordimages = I, !.wordtags = T] :
        I \in {X \in SUBSET {Image(1, 1), Image(2, 1), Image(3, 2), Image(4, 2)} :
                  Cardinality(X) <= MaxImages},
        T \in {X \in SUBSET {WordTag(w, t) : w \in {1, 2}, t \in {1, 2}} :
                  Cardinality(X) <= MaxWordTags} }

Stores == FilterStores \cup LinkStores \cup TagStores

LuteDb == <<"l", "u", "t", "e", ".", "d", "b">>
DefaultPath == <<"/">> \o LuteDb
Paths ==
    { DefaultPath, LuteDb, <<"m", "y">> \o LuteDb,
      <<"/", "n", "o", "t">> \o <<"l", "u", "t", "e", ".", "s", "q", "l", "i", "t", "e">>,
      <<".", "d", "b">>, LuteDb \o <<"~">> }

\* failures of the store itself (sqlite3.OperationalError / DatabaseError)
StoreErrors == {"database is locked", "file is not a database"}
NoExc == [msg |-> "", col |-> ""]

Args == [ parents_only : BOOLEAN, empty_translation : BOOLEAN,
          include_WKI : BOOLEAN, cutoff_date : Cutoffs ]

(* ---------------------------------------------------------------------- *)
(* State                                                                   *)
(* ---------------------------------------------------------------------- *)
VARIABLES
    db_path,       \* self.db_path
    store,         \* the contents of the file at db_path
    pc,            \* position of connect: idle, terms, languages, close, except, returned
    args,          \* the arguments of the running (or last) call
    conn,          \* the sqlite3 connection of the call: none, open, closed
    terms,         \* local terms
    languages,     \* local languages
    exc,           \* the exception caught
    result,        \* the pair connect returned
    notices,       \* showInfo calls of the call
    error_log,     \* log_error calls of the call
    info_log       \* log_info calls of the call

vars == << db_path, store, pc, args, conn, terms, languages, exc, result,
           notices, error_log, info_log >>

NoResult == [terms |-> EmptyBag, languages |-> << >>]

Init ==
    /\ \/ db_path \in Paths /\ store = ScenarioStore
       \/ db_path = DefaultPath /\ store \in Stores
    /\ pc = "idle"
    /\ args \in {[parents_only |-> FALSE, empty_translation |-> FALSE,
                  include_WKI |-> FALSE, cutoff_date |-> Today]}
    /\ conn = "none"
    /\ terms = EmptyBag
    /\ languages = << >>
    /\ exc = NoExc
    /\ result = NoResult
    /\ notices = << >>
    /\ error_log = << >>
    /\ info_log = << >>

(* ---------------------------------------------------------------------- *)
(* connect                                                                 *)
(* ---------------------------------------------------------------------- *)
\* variant: a statement that deletes the terms
execute_effect_deleting(db) == [db EXCEPT !.words = {}]

\* both statements connect executes are SELECTs: the store is read, and no
\* row is inserted, updated or deleted
execute_effect(db) == db

\* used_lg_ids = list(set(term[2] for term in terms))
used_lg_ids(fetched) == {term[3] : term \in BagToSet(fetched)}

\* variant: the languages not restricted to the used identifiers
languages_of_unfiltered(all_languages, used) ==
    [i \in 1 .. Len(all_languages) |-> << all_languages[i][1], all_languages[i][2] >>]

\* [[lang[0], lang[1]] for lang in all_languages if lang[0] in used_lg_ids]
languages_of(all_languages, used) ==
    LET Used(lang) == lang[1] \in used
        kept == SelectSeq(all_languages, Used)
    IN  [i \in 1 .. Len(kept) |-> << kept[i][1], kept[i][2] >>]

Callable == pc \in {"idle", "returned"}

\* the path does not end with lute.db: notify, log, return [], []
connect_invalid_path(a) ==
    /\ Callable
    /\ ~EndsWith(db_path, LuteDb)
    /\ args' = a
    /\ notices' = << "Please select a lute.db file" >>
    /\ error_log' = << [msg |-> "Invalid database file selected", detail |-> db_path] >>
    /\ info_log' = << >>
    /\ conn' = "none"
    /\ terms' = EmptyBag
    /\ languages' = << >>
    /\ exc' = NoExc
    /\ result' = NoResult
    /\ pc' = "returned"
    /\ UNCHANGED << db_path, store >>

\* sqlite3.connect succeeds
connect_open(a) ==
    /\ Callable
    /\ EndsWith(db_path, LuteDb)
    /\ args' = a
    /\ conn' = "open"
    /\ info_log' = << "Successfully connected to database" >>
    /\ notices' = << >>
    /\ error_log' = << >>
    /\ terms' = EmptyBag
    /\ languages' = << >>
    /\ exc' = NoExc
    /\ result' = NoResult
    /\ pc' = "terms"
    /\ UNCHANGED << db_path, store >>

\* sqlite3.connect raises: no connection was opened
connect_open_fails(a) ==
    /\ Callable
    /\ EndsWith(db_path, LuteDb)
    /\ args' = a
    /\ conn' = "none"
    /\ info_log' = << >>
    /\ notices' = << >>
    /\ error_log' = << >>
    /\ terms' = EmptyBag
    /\ languages' = << >>
    /\ exc' = [msg |-> "unable to open database file", col |-> ""]
    /\ result' = NoResult
    /\ pc' = "except"
    /\ UNCHANGED << db_path, store >>

query == build_sql_query(args.parents_only, args.empty_translation,
                         args.include_WKI, args.cutoff_date)

\* cursor.execute(self.build_sql_query(...)); terms = cursor.fetchall()
execute_terms ==
    /\ pc = "terms"
    /\ Unresolved(query) = {}
    /\ info_log' = Append(info_log, "Executing SQL query to fetch terms.")
    /\ terms' = FetchAll(query, store)
    /\ store' = execute_effect(store)
    /\ pc' = "languages"
    /\ UNCHANGED << db_path, args, conn, languages, exc, result, notices, error_log >>

\* the statement does not compile, or the store fails
execute_terms_fails ==
    /\ pc = "terms"
    /\ info_log' = Append(info_log, "Executing SQL query to fetch terms.")
    /\ \/ \E ref \in Unresolved(query) :
              exc' = [msg |-> "no such column", col |-> ref.c]
       \/ /\ Unresolved(query) = {}
          /\ \E e \in StoreErrors : exc' = [msg |-> e, col |-> ""]
    /\ pc' = "except"
    /\ UNCHANGED << db_path, store, args, conn, terms, languages, result,
                    notices, error_log >>

\* cursor.execute("SELECT * FROM languages") and the list comprehension
execute_languages ==
    /\ pc = "languages"
    /\ languages' = languages_of(store.languages, used_lg_ids(terms))
    /\ store' = execute_effect(store)
    /\ pc' = "close"
    /\ UNCHANGED << db_path, args, conn, terms, exc, result, notices,
                    error_log, info_log >>

execute_languages_fails ==
    /\ pc = "languages"
    /\ \E e \in StoreErrors : exc' = [msg |-> e, col |-> ""]
    /\ pc' = "except"
    /\ UNCHANGED << db_path, store, args, conn, terms, languages, result,
                    notices, error_log, info_log >>

\* conn.close(); log_info(...); return terms, languages
close_and_return ==
    /\ pc = "close"
    /\ conn' = "closed"
    /\ info_log' = Append(info_log, "Retrieved terms and languages.")
    /\ result' = [terms |-> terms, languages |-> languages]
    /\ pc' = "returned"
    /\ UNCHANGED << db_path, store, args, terms, languages, exc, notices, error_log >>

\* variant: the handler without the user notice
handle_exception_without_notice ==
    /\ pc = "except"
    /\ error_log' = Append(error_log, [msg |-> "Database connection error", detail |-> exc])
    /\ result' = NoResult
    /\ pc' = "returned"
    /\ UNCHANGED << db_path, store, args, conn, terms, languages, exc, info_log, notices >>

\* except Exception as e: log_error, showInfo, return [], []
handle_exception ==
    /\ pc = "except"
    /\ error_log' = Append(error_log, [msg |-> "Database connection error", detail |-> exc])
    /\ notices' = Append(notices, [msg |-> "Database connection error", detail |-> exc])
    /\ result' = NoResult
    /\ pc' = "returned"
    /\ UNCHANGED << db_path, store, args, conn, terms, languages, exc, info_log >>

Next ==
    \/ \E a \in Args : connect_invalid_path(a)
    \/ \E a \in Args : connect_open(a)
    \/ \E a \in Args : connect_open_fails(a)
    \/ execute_terms
    \/ execute_terms_fails
    \/ execute_languages
    \/ execute_languages_fails
    \/ close_and_return
    \/ handle_exception

Spec == Init /\ [][Next]_vars

(* ---------------------------------------------------------------------- *)
(* Vocabulary of the properties                                            *)
(* ---------------------------------------------------------------------- *)
Returned  == pc = "returned"
Succeeded == Returned /\ EndsWith(db_path, LuteDb) /\ exc = NoExc
\* the call ended in the invalid-path branch or in the except branch
Failed    == Returned /\ ~Succeeded
\* the store itself failed (locked, unreadable): not a failure of the query
StoreFailed == exc.msg \in StoreErrors \cup {"unable to open database file"}

Rows == BagToSet(result.terms)

\* positions of the fields in a returned Term
TranslationOf(row) == row[2]
LgIDOf(row)        == row[3]
CreatedOf(row)     == row[4]
TgTextOf(row)      == row[5]
WoIDOf(row)        == row[8]
StatusOf(row)      == row[9]

\* the date a "YYYY-MM-DD..." text starts with
Num(text, from, to) ==
    LET RECURSIVE N(_)
        N(i) == IF i < from THEN 0 ELSE 10 * N(i - 1) + (text[i] - 48)
    IN  N(to)
DateOf(text) == Date(Num(text, 1, 4), Num(text, 6, 7), Num(text, 9, 10))
DateGE(d, e) ==
    \/ d.year > e.year
    \/ d.year = e.year /\ d.month > e.month
    \/ d.year = e.year /\ d.month = e.month /\ d.day >= e.day

\* conditions 1, 3, 4, 5, 6 of the filter on a term of the store
Qualifies(w, a) ==
    /\ w.WoTranslation # NULL
    /\ DateGE(DateOf(w.WoCreated[1]), a.cutoff_date)
    /\ a.empty_translation \/ w.WoTranslation # Some(<< >>)
    /\ a.include_WKI \/ w.WoStatus[1] <= 5
    /\ w.WoStatus[1] >= 1

HasParent(w) == \E l \in store.wordparents : l.WpWoID = w.WoID
HasChild(w)  == \E l \in store.wordparents : l.WpParentWoID = w.WoID
ParentHasParent(w) ==
    \E l \in store.wordparents :
        /\ l.WpWoID = w.WoID
        /\ \E m \in store.wordparents : m.WpWoID = l.WpParentWoID
HasImage(id) == \E i \in store.wordimages : i.WiWoID = id
HasTag(id) ==
    \E wt \in store.wordtags : wt.WtWoID = id /\ \E t \in store.tags : t.TgID = wt.WtTgID
IsReturned(w) == \E row \in Rows : WoIDOf(row) = w.WoID

\* the Term of a term of the store that has neither tag nor image
PlainTerm(w) ==
    << w.WoText, w.WoTranslation, w.WoLgID, w.WoCreated, NULL,
       w.WoStatusChanged, w.WoTextLC, w.WoID, w.WoStatus, w.WoRomanization,
       w.WoTokenCount, NULL, NULL >>

ThirteenFields ==
    << "WoText", "WoTranslation", "WoLgID", "WoCreated", "TgText",
       "WoStatusChanged", "WoTextLC", "WoID", "WoStatus", "WoRomanization",
       "WoTokenCount", "WiSource", "TgComment" >>

(* ---------------------------------------------------------------------- *)
(* Properties                                                              *)
(* ---------------------------------------------------------------------- *)

\* C1: whenever connect has returned, the connection the call opened is
\* closed, on every exit path.
C1_ConnectionClosedOnReturn == Returned => conn # "open"

\* C2: a call that fails (invalid path, connection or query failure) returns
\* the empty pair, with exactly one user notice and exactly one error log,
\* the error log carrying the failure text when there is one, and without
\* the result-count summary.
C2_FailureAbsorbed ==
    Failed =>
        /\ result = NoResult
        /\ Len(notices) = 1
        /\ Len(error_log) = 1
        /\ "Retrieved terms and languages." \notin SeqRange(info_log)
        /\ exc # NoExc => error_log[1].detail = exc

\* a query failure after the terms were fetched
C2_Witness == Failed /\ exc.msg \in StoreErrors /\ terms # EmptyBag

\* C3: on a store of parentless terms without tags or images, all created on
\* or after the cutoff, connect returns exactly the terms that pass the
\* translation, date and status conditions, whatever the options.
C3_ParentlessTermsFiltered ==
    ( /\ Returned /\ EndsWith(db_path, LuteDb) /\ ~StoreFailed
      /\ store.wordparents = {} /\ store.wordimages = {} /\ store.wordtags = {}
      /\ \A w \in store.words : DateGE(DateOf(w.WoCreated[1]), args.cutoff_date) )
    => result.terms = SetToBag({PlainTerm(w) : w \in {v \in store.words : Qualifies(v, args)}})

\* C4: every returned Term has a translation, status >= 1 and a creation
\* date on or after the cutoff; a non-empty translation unless empty
\* translations are allowed; status <= 5 unless high statuses are included.
C4_ReturnedTermsQualify ==
    Returned =>
        \A row \in Rows :
            /\ TranslationOf(row) # NULL
            /\ StatusOf(row)[1] >= 1
            /\ DateGE(DateOf(CreatedOf(row)[1]), args.cutoff_date)
            /\ ~args.empty_translation => TranslationOf(row) # Some(<< >>)
            /\ ~args.include_WKI => StatusOf(row)[1] <= 5

\* terms are returned while a term of the store is held back by its status
C4_Witness ==
    /\ Succeeded /\ Rows # {}
    /\ \E w \in store.words : w.WoStatus[1] > 5 /\ ~IsReturned(w)
    /\ \E row \in Rows : DateOf(CreatedOf(row)[1]) = args.cutoff_date

\* C5: the returned Languages hold exactly one (identifier, name) pair, as
\* the store has it, for each language identifier of the returned Terms.
C5_LanguagesExact ==
    Returned =>
        LET langs == result.languages
        IN  /\ {langs[i][1] : i \in 1 .. Len(langs)} = {LgIDOf(row) : row \in Rows}
            /\ \A i, j \in 1 .. Len(langs) : langs[i][1] = langs[j][1] => i = j
            /\ \A i \in 1 .. Len(langs) :
                   \E k \in 1 .. Len(store.languages) :
                       /\ store.languages[k][1] = langs[i][1]
                       /\ store.languages[k][2] = langs[i][2]

\* the returned terms use two of the three languages of the store
C5_Witness == Succeeded /\ Len(result.languages) = 2 /\ Len(store.languages) = 3

\* C6: no step of connect changes the store (or the path).
C6_StoreUnchanged == [][store' = store /\ db_path' = db_path]_vars

\* a call has read terms from the store and returned them
C6_Witness == Succeeded /\ Rows # {} /\ store.words # {}

\* C7 (as stated): with parents_only, a term that passes the other conditions
\* is returned iff it has no parent or its parent has a parent.
C7_ReturnedIffParentHasParent ==
    (Succeeded /\ args.parents_only) =>
        \A w \in store.words :
            Qualifies(w, args) => (IsReturned(w) <=> (~HasParent(w) \/ ParentHasParent(w)))

\* C7 (amended): with parents_only, in a successful extraction, a term that
\* passes the other conditions is returned iff it has no parent or is itself
\* the parent of another term.
C7_ReturnedIffRootOrParent ==
    (Succeeded /\ args.parents_only) =>
        \A w \in store.words :
            Qualifies(w, args) => (IsReturned(w) <=> (~HasParent(w) \/ HasChild(w)))

\* a child that is a parent is returned, a child whose parent has a parent
\* and that has no child is not
C7_Witness ==
    /\ Succeeded /\ args.parents_only
    /\ \E w \in store.words :
           Qualifies(w, args) /\ HasParent(w) /\ HasChild(w) /\ IsReturned(w)
    /\ \E w \in store.words :
           Qualifies(w, args) /\ ParentHasParent(w) /\ ~HasChild(w) /\ ~IsReturned(w)

\* C8: the returned Terms hold at most one row per (term, tag, image)
\* combination.
C8_OneRowPerCombination ==
    Returned =>
        /\ \A row \in Rows : result.terms[row] = 1
        /\ \A r1, r2 \in Rows :
               ( /\ WoIDOf(r1) = WoIDOf(r2) /\ TgTextOf(r1) = TgTextOf(r2)
                 /\ r1[12] = r2[12] /\ r1[13] = r2[13] ) => r1 = r2

\* C9: whatever the options, the query selects the same thirteen fields in
\* the same order.
C9_SameThirteenFields ==
    pc = "terms" => [i \in 1 .. Len(query.select) |-> query.select[i].c] = ThirteenFields

\* C10: in a successful extraction a term without image row has null tag
\* label, tag comment and image source in every row returned for it, a tag
\* label is returned only for a term with an image row, and a qualifying
\* root term with tags and no image is returned.
C10_TagsOnlyWithImage ==
    Succeeded =>
        /\ \A row \in Rows :
               /\ ~HasImage(WoIDOf(row)) => (TgTextOf(row) = NULL /\ row[12] = NULL /\ row[13] = NULL)
               /\ TgTextOf(row) # NULL => HasImage(WoIDOf(row))
        /\ \A w \in store.words :
               ( /\ Qualifies(w, args) /\ ~HasParent(w)
                 /\ HasTag(w.WoID) /\ ~HasImage(w.WoID) ) => IsReturned(w)

\* a tagged term without image is returned, and so is a tag of a term with one
C10_Witness ==
    /\ Succeeded
    /\ \E row \in Rows : HasTag(WoIDOf(row)) /\ ~HasImage(WoIDOf(row))
    /\ \E row \in Rows : TgTextOf(row) # NULL

====
